---- MODULE Spec2Model ----
(***************************************************************************)
(* BoxFnOnce (src/src/lib.rs, src/src/macros.rs): a heap box around a      *)
(* FnOnce.  The box stores a Box<FnMut(Args) -> Result> whose captured     *)
(* state is an Option<F>; the FnMut ("shim") does                          *)
(*     func.take().unwrap()(a1, .., aN)                                    *)
(* and the public accessors call_tuple / call take the box by value.       *)
(*                                                                         *)
(* A box is identified by a number.  Per box the model keeps the fields    *)
(* the code has (the Option slot inside the shim), the ownership status of *)
(* the box value itself (state), and history variables recording what the  *)
(* wrapped callable saw and what the caller got back.                      *)
(***************************************************************************)
EXTENDS Integers, Sequences, FiniteSets, TLC

\* ---------------------------------------------------------------- bounds
\* Largest arity a box is generated for (last build_n_args! invocation).
MaxArity == 10
\* Number of boxes the surrounding program builds.
MaxBoxes == 2
\* Cap on direct invocations of the stored FnMut on one box (SpecInternal).
MaxShimCalls == 2

Boxes == 1..MaxBoxes

\* ------------------------------------------------------------ callables
\* The once-callables handed to from(): the closures of the test module.
\* Every one of them captures the String "abc".  The echo closure is taken
\* at every arity 0..MaxArity; the two closures that discard their
\* arguments at arity 0 (zero-argument shim) and 4 (generated shim, as in
\* the tests).
\*   echo    : move |a1..aN| (s, a1, .., aN)          (test_arg0..test_arg3)
\*   void    : move |a1..aN| { drop(a1); ..; drop(s) } (test_arg4_void)
\*   diverge : as void, then panic!("inner diverging") (test_arg4_diverging)
Kinds == {"echo", "void", "diverge"}
CapturedText == "abc"
PanicMarker == "inner diverging"
UnwrapMsg == "called Option::unwrap on a None value"

Callables ==
  {f \in [arity : 0..MaxArity, kind : Kinds, text : {CapturedText}] :
     f.kind = "echo" \/ f.arity \in {0, 4}}
NoFn == [arity |-> 0, kind |-> "none", text |-> ""]

\* Argument lists for arity n.  Position i carries a marker value (Arg1{},
\* Arg2{}, .. in the tests); two lists per arity, so that a permutation of
\* the positions is visible.
Asc(n) == [i \in 1..n |-> i]
Desc(n) == [i \in 1..n |-> n + 1 - i]
ArgLists(n) == {Asc(n), Desc(n)}

\* Option<F>
None == [some |-> FALSE, val |-> NoFn]
Some(f) == [some |-> TRUE, val |-> f]

\* What a call hands back to its caller: a value, or an unwinding panic.
NoOutcome == [tag |-> "none", text |-> "", args |-> <<>>, msg |-> ""]
Unit == [tag |-> "unit", text |-> "", args |-> <<>>, msg |-> ""]
Ret(s, args) == [tag |-> "ret", text |-> s, args |-> args, msg |-> ""]
Panic(m) == [tag |-> "panic", text |-> "", args |-> <<>>, msg |-> m]

\* The wrapped FnOnce called by value with positional arguments args:
\* its outcome, and where its captured String ends up ("caller": moved into
\* the return value; otherwise dropped inside the body, rel = 1).
CallOnce(f, args) ==
  CASE f.kind = "echo" -> [out |-> Ret(f.text, args), moved |-> {"caller"}, rel |-> 0]
    [] f.kind = "void" -> [out |-> Unit, moved |-> {}, rel |-> 1]
    [] OTHER -> [out |-> Panic(PanicMarker), moved |-> {}, rel |-> 1]

\* ----------------------------------------------------------------- shim
\* Option::take: hands out the slot's content and leaves None behind.
\* Faulty variant: as_ref().cloned() instead of take(), the slot stays full.
TakeCloned(slot) == [value |-> slot, slot |-> slot]
Take(slot) == [value |-> slot, slot |-> None]

\* func.take().unwrap()(a1, .., aN): the body shared by the zero-argument
\* shim and the generated ones.  unwrap() on None panics before anything is
\* called (ran = 0); otherwise the FnOnce runs once, by value, and whatever
\* it does (return or panic) is the shim's outcome.
\* Faulty variant: the callable's panic is caught and turned into ().
ExtractedCatching(slot, args) ==
  LET t == Take(slot)
      r == CallOnce(t.value.val, args)
  IN IF ~t.value.some
       THEN [slot |-> t.slot, out |-> Panic(UnwrapMsg), ran |-> 0,
             recv |-> <<>>, moved |-> {}, rel |-> 0]
       ELSE [slot |-> t.slot,
             out |-> IF r.out.tag = "panic" THEN Unit ELSE r.out,
             ran |-> 1, recv |-> args, moved |-> r.moved, rel |-> r.rel]
\* Faulty variant: an empty slot yields a default value instead of a panic.
ExtractedLenient(slot, args) ==
  LET t == Take(slot)
      r == CallOnce(t.value.val, args)
  IN IF ~t.value.some
       THEN [slot |-> t.slot, out |-> Unit, ran |-> 0,
             recv |-> <<>>, moved |-> {}, rel |-> 0]
       ELSE [slot |-> t.slot, out |-> r.out, ran |-> 1, recv |-> args,
             moved |-> r.moved, rel |-> r.rel]
Extracted(slot, args) ==
  LET t == Take(slot)
      r == CallOnce(t.value.val, args)
  IN IF ~t.value.some
       THEN [slot |-> t.slot, out |-> Panic(UnwrapMsg), ran |-> 0,
             recv |-> <<>>, moved |-> {}, rel |-> 0]
       ELSE [slot |-> t.slot, out |-> r.out, ran |-> 1, recv |-> args,
             moved |-> r.moved, rel |-> r.rel]

\* The closure parameter pattern |(a1, .., aN,)| and the call f(a1, .., aN):
\* component i of the tuple becomes positional argument i.
\* Faulty variant: the pattern binds the components in the opposite order.
ForwardReversed(tup) == [i \in 1..Len(tup) |-> tup[Len(tup) + 1 - i]]
Forward(tup) == [i \in 1..Len(tup) |-> tup[i]]

\* call's argument expression (a1, .., aN,): positional argument i becomes
\* component i of the tuple; for no arguments it is ().
\* Faulty variant: the tuple is built in the opposite order.
TupledReversed(args) == [i \in 1..Len(args) |-> args[Len(args) + 1 - i]]
Tupled(args) == [i \in 1..Len(args) |-> args[i]]

\* The FnMut stored by From<F> for BoxFnOnce<(), Result>: move |_| ..
Shim0(slot, tup) == Extracted(slot, <<>>)
\* The FnMut stored by the generated From<F>: move |(a1, .., aN,)| ..
ShimN(slot, tup) == Extracted(slot, Forward(tup))

\* Drop glue of the box: the boxed FnMut is freed and with it whatever the
\* Option still holds; the number of captured Strings released by it.
\* Faulty variant: the boxed FnMut is forgotten instead of freed.
DropGlueLeaking(slot) == 0
DropGlue(slot) == IF slot.some THEN 1 ELSE 0

\* ---------------------------------------------------------------- state
VARIABLES
  state,      \* per box: "Absent", "Constructed", "Called", "DroppedUnused"
  argc,       \* per box: arity of its Args tuple type
  slot,       \* per box: the Option<F> captured by the stored FnMut
  given,      \* per box: the callable that was handed to from / new
  passed,     \* per box: the argument list handed to call / call_tuple
  recv,       \* per box: the argument list the wrapped callable received
  result,     \* per box: what the last invocation handed to its caller
  invoked,    \* per box: how often the wrapped callable's body was entered
  shimCalls,  \* per box: how often the stored FnMut was invoked
  holders,    \* per box: who owns the captured String ("slot", "caller")
  released    \* per box: how often the captured String was released

vars == <<state, argc, slot, given, passed, recv, result, invoked, shimCalls,
          holders, released>>

Init ==
  /\ state = [b \in Boxes |-> "Absent"]
  /\ argc = [b \in Boxes |-> 0]
  /\ slot = [b \in Boxes |-> None]
  /\ given = [b \in Boxes |-> NoFn]
  /\ passed = [b \in Boxes |-> <<>>]
  /\ recv = [b \in Boxes |-> <<>>]
  /\ result = [b \in Boxes |-> NoOutcome]
  /\ invoked = [b \in Boxes |-> 0]
  /\ shimCalls = [b \in Boxes |-> 0]
  /\ holders = [b \in Boxes |-> {}]
  /\ released = [b \in Boxes |-> 0]

\* The box the next construction yields: boxes are numbered as they are built.
Fresh(b) == state[b] = "Absent" /\ \A c \in Boxes : c < b => state[c] # "Absent"

\* let mut func = Some(func); BoxFnOnce{ func: Box::new(move |..| ..) }
Construct(b, f) ==
  /\ Fresh(b)
  /\ state' = [state EXCEPT ![b] = "Constructed"]
  /\ argc' = [argc EXCEPT ![b] = f.arity]
  /\ slot' = [slot EXCEPT ![b] = Some(f)]
  /\ given' = [given EXCEPT ![b] = f]
  /\ holders' = [holders EXCEPT ![b] = {"slot"}]
  /\ UNCHANGED <<passed, recv, result, invoked, shimCalls, released>>

\* From<F> for BoxFnOnce<(), Result>
From0(f) == f.arity = 0 /\ \E b \in Boxes : Construct(b, f)
\* From<F> for BoxFnOnce<(A1, .., AN,), Result>, N = 1..10
FromN(f) == f.arity \in 1..MaxArity /\ \E b \in Boxes : Construct(b, f)
\* BoxFnOnce::new: Self::from(func)
New(f) == From0(f) \/ FromN(f)

\* (*self.func)(tup): the stored FnMut of box b applied to the tuple.
InvokeFunc(b, tup) == IF argc[b] = 0 THEN Shim0(slot[b], tup) ELSE ShimN(slot[b], tup)

\* One invocation of the stored FnMut on box b with tuple tup for argument
\* list args; owned says whether the invoking method took the box by value,
\* in which case the box is freed when the method returns or unwinds.
Invoke(b, args, tup, owned) ==
  LET r == InvokeFunc(b, tup)
      freed == IF owned THEN DropGlue(r.slot) ELSE 0
  IN /\ state' = [state EXCEPT ![b] = IF owned THEN "Called" ELSE @]
     /\ slot' = [slot EXCEPT ![b] = r.slot]
     /\ passed' = [passed EXCEPT ![b] = args]
     /\ recv' = [recv EXCEPT ![b] = IF r.ran = 1 THEN r.recv ELSE @]
     /\ result' = [result EXCEPT ![b] = r.out]
     /\ invoked' = [invoked EXCEPT ![b] = @ + r.ran]
     /\ shimCalls' = [shimCalls EXCEPT ![b] = @ + 1]
     /\ holders' = [holders EXCEPT ![b] =
           (IF r.ran = 1 THEN r.moved ELSE @ \ {"slot"})
             \cup (IF r.slot.some /\ ~owned THEN {"slot"} ELSE {})]
     /\ released' = [released EXCEPT ![b] = @ + r.rel + freed]
     /\ UNCHANGED <<argc, given>>

\* Faulty variant: receiver &self over a shim that calls a copy of the
\* callable and leaves the slot full.
CallTupleFn(b, tup) ==
  LET r == CallOnce(slot[b].val, Forward(tup))
  IN /\ state[b] = "Constructed"
     /\ tup \in ArgLists(argc[b])
     /\ invoked[b] < 3
     /\ passed' = [passed EXCEPT ![b] = tup]
     /\ recv' = [recv EXCEPT ![b] = Forward(tup)]
     /\ result' = [result EXCEPT ![b] = r.out]
     /\ invoked' = [invoked EXCEPT ![b] = @ + 1]
     /\ shimCalls' = [shimCalls EXCEPT ![b] = @ + 1]
     /\ UNCHANGED <<state, argc, slot, given, holders, released>>
\* Faulty variant: receiver &mut self, the box is not consumed.
CallTupleByRef(b, tup) ==
  /\ state[b] = "Constructed"
  /\ tup \in ArgLists(argc[b])
  /\ Invoke(b, tup, tup, FALSE)
\* pub fn call_tuple(mut self, args: Args) -> Result
CallTuple(b, tup) ==
  /\ state[b] = "Constructed"
  /\ tup \in ArgLists(argc[b])
  /\ Invoke(b, tup, tup, TRUE)

\* pub fn call(mut self) -> Result, for BoxFnOnce<(), Result>
Call0(b) ==
  /\ state[b] = "Constructed"
  /\ argc[b] = 0
  /\ Invoke(b, <<>>, Tupled(<<>>), TRUE)

\* Faulty variant: receiver &mut self, the box is not consumed.
CallNByRef(b, args) ==
  /\ state[b] = "Constructed"
  /\ argc[b] \in 1..MaxArity
  /\ args \in ArgLists(argc[b])
  /\ Invoke(b, args, Tupled(args), FALSE)
\* pub fn call(mut self, a1: A1, .., aN: AN) -> Result
CallN(b, args) ==
  /\ state[b] = "Constructed"
  /\ argc[b] \in 1..MaxArity
  /\ args \in ArgLists(argc[b])
  /\ Invoke(b, args, Tupled(args), TRUE)

\* The box goes out of scope without having been called.
Drop(b) ==
  /\ state[b] = "Constructed"
  /\ state' = [state EXCEPT ![b] = "DroppedUnused"]
  /\ released' = [released EXCEPT ![b] = @ + DropGlue(slot[b])]
  /\ holders' = [holders EXCEPT ![b] = @ \ {"slot"}]
  /\ UNCHANGED <<argc, slot, given, passed, recv, result, invoked, shimCalls>>

Next ==
  \/ \E f \in Callables : From0(f)
  \/ \E f \in Callables : FromN(f)
  \/ \E f \in Callables : New(f)
  \/ \E b \in Boxes : Call0(b)
  \/ \E b \in Boxes : \E args \in ArgLists(argc[b]) : CallN(b, args)
  \/ \E b \in Boxes : \E tup \in ArgLists(argc[b]) : CallTuple(b, tup)
  \/ \E b \in Boxes : Drop(b)

Spec == Init /\ [][Next]_vars

\* ------------------------------------------------- inside the crate
\* The field func is private; code of the crate itself can reach it and
\* invoke the stored FnMut through a reference, leaving the box in place
\* ("theoretically we could call the inner FnMut multiple times").
ShimDirect(b, tup) ==
  /\ state[b] = "Constructed"
  /\ shimCalls[b] < MaxShimCalls
  /\ tup \in ArgLists(argc[b])
  /\ Invoke(b, tup, tup, FALSE)

\* One box, driven by the public methods and by direct invocations.
First == CHOOSE b \in Boxes : \A c \in Boxes : b <= c

NextInternal ==
  \/ \E f \in Callables : state[First] = "Absent" /\ New(f)
  \/ \E tup \in ArgLists(argc[First]) : ShimDirect(First, tup)
  \/ Call0(First)
  \/ \E args \in ArgLists(argc[First]) : CallN(First, args)
  \/ \E tup \in ArgLists(argc[First]) : CallTuple(First, tup)

SpecInternal == Init /\ [][NextInternal]_vars

\* --------------------------------------------------------------- claims
\* Everything the model keeps about box b.
BoxView(b) ==
  <<state[b], argc[b], slot[b], given[b], passed[b], recv[b], result[b],
    invoked[b], shimCalls[b], holders[b], released[b]>>

\* C1: a box built with from(f) and called with (a1..aN) hands back exactly
\* f(a1..aN): the wrapped callable received the arguments in the positions
\* they were passed in, ran once, and the only effect on the captured
\* String is the one f itself has on it.
C1_CallReturnsF ==
  \A b \in Boxes :
    state[b] = "Called" =>
      LET r == CallOnce(given[b], passed[b])
      IN /\ result[b] = r.out
         /\ recv[b] = passed[b]
         /\ invoked[b] = 1
         /\ holders[b] = r.moved
         /\ released[b] = r.rel

\* C1 witness: an echo box of the largest arity called with a list whose
\* positions all differ.
C1_Witness ==
  \E b \in Boxes :
    /\ state[b] = "Called"
    /\ given[b].kind = "echo"
    /\ argc[b] = MaxArity
    /\ passed[b] = Desc(MaxArity)
    /\ result[b] = Ret(CapturedText, Desc(MaxArity))

\* C2: whatever public operations were performed on whatever boxes, the
\* wrapped callable of each box has been invoked at most once.
C2_AtMostOnce == \A b \in Boxes : invoked[b] <= 1

\* C2 witness: every box has reached the end of its life and one of them
\* was called.
C2_Witness ==
  /\ \A b \in Boxes : state[b] \in {"Called", "DroppedUnused"}
  /\ \E b \in Boxes : state[b] = "Called" /\ invoked[b] = 1

\* C3: a box is Absent until from/new yields it in Constructed; from
\* Constructed it goes to Called (by an invocation of the stored FnMut) or
\* to DroppedUnused (without one); a step that keeps a box's state keeps
\* the whole box, so nothing acts on a box that is Called or DroppedUnused.
C3_Lifecycle ==
  [][\A b \in Boxes :
       /\ state'[b] \in {"Absent", "Constructed", "Called", "DroppedUnused"}
       /\ state'[b] = state[b] => BoxView(b)' = BoxView(b)
       /\ state[b] = "Absent" =>
            /\ state'[b] \in {"Absent", "Constructed"}
            /\ state'[b] = "Constructed" => slot'[b].some /\ shimCalls'[b] = 0
       /\ state[b] = "Constructed" =>
            /\ state'[b] \in {"Constructed", "Called", "DroppedUnused"}
            /\ state'[b] = "Called" => shimCalls'[b] = shimCalls[b] + 1
            /\ state'[b] = "DroppedUnused" => shimCalls'[b] = shimCalls[b]
       /\ state[b] \in {"Called", "DroppedUnused"} => state'[b] = state[b]
    ]_vars

\* C3 witness: one box ended Called and another DroppedUnused.
C3_Witness ==
  \E b, c \in Boxes : state[b] = "Called" /\ state[c] = "DroppedUnused"

\* C4: a box dropped while Constructed never ran the wrapped callable, its
\* captured String was released exactly once and nobody holds it, and no
\* panic or value was produced.
C4_DropUnused ==
  \A b \in Boxes :
    state[b] = "DroppedUnused" =>
      /\ invoked[b] = 0
      /\ shimCalls[b] = 0
      /\ released[b] = 1
      /\ holders[b] = {}
      /\ result[b] = NoOutcome

\* C4 witness: a box was constructed and dropped uncalled.
C4_Witness ==
  \E b \in Boxes : state[b] = "DroppedUnused" /\ given[b] \in Callables

\* C5: when the wrapped callable panics, the caller of call / call_tuple
\* gets that panic with its marker message, and the box is Called with the
\* callable taken out of the slot and run exactly once.
C5_PanicPropagates ==
  \A b \in Boxes :
    (state[b] = "Called" /\ given[b].kind = "diverge") =>
      /\ result[b] = Panic(PanicMarker)
      /\ invoked[b] = 1
      /\ shimCalls[b] = 1
      /\ ~slot[b].some

\* C5 witness: a diverging callable of arity 4 was boxed and called.
C5_Witness ==
  \E b \in Boxes :
    /\ state[b] = "Called"
    /\ given[b].kind = "diverge"
    /\ argc[b] = 4
    /\ result[b].tag = "panic"

\* C6: through the public interface the stored FnMut always finds the
\* callable in its slot: a Constructed box has a full slot, every
\* invocation of the FnMut ran the callable, and no caller ever saw the
\* panic of unwrap().
C6_ExtractionSucceeds ==
  \A b \in Boxes :
    /\ state[b] = "Constructed" => slot[b].some
    /\ invoked[b] = shimCalls[b]
    /\ result[b] # Panic(UnwrapMsg)

\* C6 witness: the FnMut of a box of arity > 0 was invoked.
C6_Witness ==
  \E b \in Boxes : state[b] = "Called" /\ shimCalls[b] = 1 /\ argc[b] > 0

\* C7: on a Constructed box, a step is a call(a1..aN) step exactly when it
\* is a call_tuple((a1..aN)) step: same result, same invocation of the
\* wrapped callable, same resulting box.
C7_CallTupleSameAsCall ==
  [][\A b \in Boxes : \A a \in ArgLists(argc[b]) :
       (IF argc[b] = 0 THEN Call0(b) ELSE CallN(b, a)) <=> CallTuple(b, a)
    ]_vars

\* C7 witness: a box of arity 3 was invoked with a list whose positions
\* differ.
C7_Witness ==
  \E b \in Boxes :
    state[b] = "Called" /\ argc[b] = 3 /\ passed[b] = Desc(3) /\ recv[b] = Desc(3)

\* C8: the String captured by a zero-argument callable that returns it has
\* exactly one owner from construction on - the slot, then the caller - is
\* never released in between, and the caller gets the original text.
C8_MovedNotCopied ==
  \A b \in Boxes :
    (given[b].kind = "echo" /\ argc[b] = 0 /\ state[b] \in {"Constructed", "Called"}) =>
      /\ Cardinality(holders[b]) = 1
      /\ released[b] = 0
      /\ state[b] = "Constructed" => holders[b] = {"slot"}
      /\ state[b] = "Called" =>
           holders[b] = {"caller"} /\ result[b] = Ret(CapturedText, <<>>)

\* C8 witness: such a box was called.
C8_Witness ==
  \E b \in Boxes :
    given[b].kind = "echo" /\ given[b].arity = 0 /\ state[b] = "Called"

\* C10: an invocation of the stored FnMut that finds the slot empty ends
\* in the panic of unwrap(): the wrapped callable is not run, nothing it
\* received or owns changes, and no value is handed back.
C10_EmptySlotPanics ==
  [][\A b \in Boxes :
       (shimCalls'[b] = shimCalls[b] + 1 /\ ~slot[b].some) =>
          /\ result'[b] = Panic(UnwrapMsg)
          /\ invoked'[b] = invoked[b]
          /\ recv'[b] = recv[b]
          /\ holders'[b] = holders[b]
          /\ released'[b] = released[b]
          /\ ~slot'[b].some
    ]_vars

\* C10 witness: the FnMut was invoked a second time and panicked in unwrap().
C10_Witness ==
  \E b \in Boxes :
    shimCalls[b] >= 2 /\ invoked[b] = 1 /\ result[b] = Panic(UnwrapMsg)

====
